---- MODULE Spec2Model ----
(***************************************************************************)
(* A model of notion_mcp/server.py: the Notion todo tool server.           *)
(*                                                                         *)
(* Python values are modelled as follows.                                  *)
(*   - a str is a TLA+ string, read character by character with SubSeq;    *)
(*   - a dict is a function whose DOMAIN is the set of keys it holds;      *)
(*   - a list is a sequence;                                               *)
(*   - a JSON value that may be null (the "select" and "date" payloads of  *)
(*     a property) is a sequence of length 0 (null) or 1 (the object);     *)
(*   - what safe_get_property returns is a tagged value PyNone, PyStr(s)   *)
(*     or PyList(l), so that a str and a list are never confused.          *)
(***************************************************************************)
EXTENDS Integers, Sequences, FiniteSets, TLC

VARIABLES store, requests, result, arg

vars == <<store, requests, result, arg>>

(***************************************************************************)
(* Bounds of the model.                                                    *)
(***************************************************************************)
MaxBatch == 2
MaxStore == 2

(***************************************************************************)
(* Python values.                                                          *)
(***************************************************************************)
PyNone == [t |-> "None"]
PyStr(s) == [t |-> "str", s |-> s]
PyList(l) == [t |-> "list", l |-> l]

Truthy(v) ==
    CASE v.t = "None" -> FALSE
      [] v.t = "str" -> v.s # ""
      [] v.t = "list" -> v.l # <<>>

Has(d, k) == k \in DOMAIN d

EmptyDict == [k \in {} |-> 0]

(***************************************************************************)
(* Characters and numbers.                                                 *)
(***************************************************************************)
Char(s, i) == IF i >= 1 /\ i <= Len(s) THEN SubSeq(s, i, i) ELSE ""

Digits == {"0", "1", "2", "3", "4", "5", "6", "7", "8", "9"}

DigitVal(c) ==
    CASE c = "0" -> 0 [] c = "1" -> 1 [] c = "2" -> 2 [] c = "3" -> 3
      [] c = "4" -> 4 [] c = "5" -> 5 [] c = "6" -> 6 [] c = "7" -> 7
      [] c = "8" -> 8 [] c = "9" -> 9

AllDigits(s) == \A i \in 1..Len(s) : Char(s, i) \in Digits

RECURSIVE Num(_)
Num(s) ==
    IF Len(s) = 0 THEN 0
    ELSE 10 * Num(SubSeq(s, 1, Len(s) - 1)) + DigitVal(Char(s, Len(s)))

IsLeap(y) == (y % 4 = 0 /\ y % 100 # 0) \/ y % 400 = 0

DaysInMonth(y, m) ==
    CASE m \in {1, 3, 5, 7, 8, 10, 12} -> 31
      [] m \in {4, 6, 9, 11} -> 30
      [] m = 2 -> IF IsLeap(y) THEN 29 ELSE 28

BadDate == [ok |-> FALSE, y |-> 0, m |-> 0, d |-> 0]

(***************************************************************************)
(* datetime.strptime(date_str, "%Y-%m-%d"): the format compiles to the     *)
(* regular expression                                                      *)
(*   (\d\d\d\d)-(1[0-2]|0[1-9]|[1-9])-(3[01]|[12]\d|0[1-9]|[1-9]| [1-9])   *)
(* which must match the whole string; the date must then exist.            *)
(***************************************************************************)
MonthToken(tok) ==
    \/ Len(tok) = 1 /\ tok \in Digits \ {"0"}
    \/ Len(tok) = 2 /\ Char(tok, 1) = "1" /\ Char(tok, 2) \in {"0", "1", "2"}
    \/ Len(tok) = 2 /\ Char(tok, 1) = "0" /\ Char(tok, 2) \in Digits \ {"0"}

DayToken(tok) ==
    \/ Len(tok) = 1 /\ tok \in Digits \ {"0"}
    \/ Len(tok) = 2 /\ Char(tok, 1) = "3" /\ Char(tok, 2) \in {"0", "1"}
    \/ Len(tok) = 2 /\ Char(tok, 1) \in {"1", "2"} /\ Char(tok, 2) \in Digits
    \/ Len(tok) = 2 /\ Char(tok, 1) \in {"0", " "} /\ Char(tok, 2) \in Digits \ {"0"}

TokenVal(tok) == IF Char(tok, 1) = " " THEN Num(SubSeq(tok, 2, Len(tok))) ELSE Num(tok)

strptime(s) ==
    LET n == Len(s)
        p == IF Char(s, 7) = "-" THEN 7 ELSE 8
        ys == SubSeq(s, 1, 4)
        ms == SubSeq(s, 6, p - 1)
        ds == SubSeq(s, p + 1, n)
    IN  IF /\ n >= 8 /\ n <= 10
           /\ AllDigits(ys)
           /\ Char(s, 5) = "-"
           /\ Char(s, p) = "-"
           /\ MonthToken(ms)
           /\ DayToken(ds)
        THEN LET y == Num(ys)
                 m == TokenVal(ms)
                 d == TokenVal(ds)
             IN  IF y >= 1 /\ d <= DaysInMonth(y, m)
                 THEN [ok |-> TRUE, y |-> y, m |-> m, d |-> d]
                 ELSE BadDate
        ELSE BadDate

validate_date(date_str) ==
    IF date_str = "" THEN TRUE ELSE strptime(date_str).ok

(***************************************************************************)
(* due_str.replace("Z", "+00:00")                                          *)
(***************************************************************************)
RECURSIVE ReplaceZ(_)
ReplaceZ(s) ==
    IF Len(s) = 0 THEN ""
    ELSE (IF Char(s, 1) = "Z" THEN "+00:00" ELSE Char(s, 1)) \o ReplaceZ(SubSeq(s, 2, Len(s)))

(***************************************************************************)
(* datetime.fromisoformat: YYYY-MM-DD[*HH[:MM[:SS[.fff[fff]]]][+HH:MM]],   *)
(* the grammar that every Python version from 3.7 on accepts.              *)
(* The result keeps the wall-clock fields as written and the UTC offset    *)
(* in minutes (aware = FALSE when the string carries no offset).           *)
(***************************************************************************)
BadDateTime ==
    [ok |-> FALSE, y |-> 0, m |-> 0, d |-> 0, hh |-> 0, mi |-> 0, aware |-> FALSE, off |-> 0]

TwoDigits(s, i) == Char(s, i) \in Digits /\ Char(s, i + 1) \in Digits

\* [HH[:MM[:SS[.fff[fff]]]]: the clock part, or an offset without its sign
ClockOk(t) ==
    LET n == Len(t)
    IN  /\ n \in {2, 5, 8, 12, 15}
        /\ TwoDigits(t, 1)
        /\ n >= 5 => Char(t, 3) = ":" /\ TwoDigits(t, 4)
        /\ n >= 8 => Char(t, 6) = ":" /\ TwoDigits(t, 7)
        /\ n >= 12 => Char(t, 9) = "." /\ AllDigits(SubSeq(t, 10, n))
        /\ Num(SubSeq(t, 1, 2)) <= 23
        /\ n >= 5 => Num(SubSeq(t, 4, 5)) <= 59
        /\ n >= 8 => Num(SubSeq(t, 7, 8)) <= 59

ClockMinutes(t) ==
    60 * Num(SubSeq(t, 1, 2)) + (IF Len(t) >= 5 THEN Num(SubSeq(t, 4, 5)) ELSE 0)

SignPos(t) ==
    LET ps == {i \in 1..Len(t) : Char(t, i) \in {"+", "-"}}
    IN  IF ps = {} THEN 0 ELSE CHOOSE i \in ps : \A j \in ps : i <= j

fromisoformat(s) ==
    LET n == Len(s)
        ys == SubSeq(s, 1, 4)
        ms == SubSeq(s, 6, 7)
        ds == SubSeq(s, 9, 10)
        t == SubSeq(s, 12, n)
        k == SignPos(t)
        clock == IF k = 0 THEN t ELSE SubSeq(t, 1, k - 1)
        tz == IF k = 0 THEN "" ELSE SubSeq(t, k + 1, Len(t))
        dateOk ==
            /\ n >= 10
            /\ AllDigits(ys) /\ AllDigits(ms) /\ AllDigits(ds)
            /\ Char(s, 5) = "-" /\ Char(s, 8) = "-"
            /\ Num(ys) >= 1
            /\ Num(ms) >= 1 /\ Num(ms) <= 12
            /\ Num(ds) >= 1 /\ Num(ds) <= DaysInMonth(Num(ys), Num(ms))
        timeOk ==
            \/ n = 10
            \/ /\ n >= 13
               /\ ClockOk(clock)
               /\ k # 0 => ClockOk(tz)
    IN  IF dateOk /\ timeOk
        THEN [ok |-> TRUE, y |-> Num(ys), m |-> Num(ms), d |-> Num(ds),
              hh |-> IF n = 10 THEN 0 ELSE Num(SubSeq(clock, 1, 2)),
              mi |-> IF n = 10 \/ Len(clock) < 5 THEN 0 ELSE Num(SubSeq(clock, 4, 5)),
              aware |-> (n > 10 /\ k # 0),
              off |-> IF n = 10 \/ k = 0 THEN 0
                      ELSE (IF Char(t, k) = "-" THEN -1 ELSE 1) * ClockMinutes(tz)]
        ELSE BadDateTime


(***************************************************************************)
(* Tagged properties, as the store holds them and as the code writes them. *)
(***************************************************************************)
TitleProp(s) == [type |-> "title", title |-> <<[type |-> "text", text |-> [content |-> s]]>>]
SelectProp(n) == [type |-> "select", select |-> <<[name |-> n]>>]
DateProp(s) == [type |-> "date", date |-> <<[start |-> s]>>]
PeopleRef(id) == [type |-> "people", people |-> <<[object |-> "user", id |-> id]>>]
MultiSelectProp(ns) == [type |-> "multi_select", multi_select |-> [i \in 1..Len(ns) |-> [name |-> ns[i]]]]
RelationProp(id) == [type |-> "relation", relation |-> <<[id |-> id]>>]
UrlProp(u) == [type |-> "url", url |-> u]
StatusProp(n) == [type |-> "status", status |-> <<[name |-> n]>>]

AllHave(items, k) == \A i \in 1..Len(items) : Has(items[i], k)

(***************************************************************************)
(* safe_get_property: any exception raised while reading the property      *)
(* (a missing key) is caught and the default returned.                     *)
(***************************************************************************)
safe_get_property(properties, key, default) ==
    IF ~Has(properties, key) THEN default
    ELSE LET prop == properties[key]
         IN  IF ~Has(prop, "type") \/ prop.type = "" THEN default
             ELSE CASE prop.type = "title" ->
                         IF ~Has(prop, "title") THEN default
                         ELSE IF prop.title = <<>> THEN default
                         ELSE IF Has(prop.title[1], "text") /\ Has(prop.title[1].text, "content")
                              THEN PyStr(prop.title[1].text.content)
                              ELSE default
                    [] prop.type = "select" ->
                         IF ~Has(prop, "select") THEN default
                         ELSE IF prop.select = <<>> THEN default
                         ELSE IF Has(prop.select[1], "name")
                              THEN PyStr(prop.select[1].name)
                              ELSE default
                    [] prop.type = "multi_select" ->
                         IF ~Has(prop, "multi_select") THEN default
                         ELSE IF prop.multi_select = <<>> THEN default
                         ELSE IF AllHave(prop.multi_select, "name")
                              THEN PyList([i \in 1..Len(prop.multi_select) |-> prop.multi_select[i].name])
                              ELSE default
                    [] prop.type = "date" ->
                         IF ~Has(prop, "date") THEN default
                         ELSE IF prop.date = <<>> THEN default
                         ELSE IF Has(prop.date[1], "start")
                              THEN PyStr(prop.date[1].start)
                              ELSE default
                    [] prop.type = "people" ->
                         IF ~Has(prop, "people") THEN default
                         ELSE IF prop.people = <<>> THEN default
                         ELSE IF AllHave(prop.people, "name")
                              THEN PyList([i \in 1..Len(prop.people) |-> prop.people[i].name])
                              ELSE default
                    [] prop.type = "relation" ->
                         IF ~Has(prop, "relation") THEN default
                         ELSE IF prop.relation = <<>> THEN default
                         ELSE IF AllHave(prop.relation, "id")
                              THEN PyList([i \in 1..Len(prop.relation) |-> prop.relation[i].id])
                              ELSE default
                    [] OTHER -> default

(***************************************************************************)
(* create_todo: validation, then the properties payload.                   *)
(* A request is [task, assignee, due, priority, tags, sprint, project,     *)
(* status, github_pr]; tags is a list, empty when not given.               *)
(***************************************************************************)
Priorities == {"High", "Medium", "Low"}
Statuses == {"Done", "In progress", "Not started"}

\* create_todo without its last check
ValidationError_NoStatusCheck(req) ==
    IF req.task = "" THEN "Task name is required"
    ELSE IF ~validate_date(req.due) THEN "Invalid date format. Use YYYY-MM-DD"
    ELSE IF req.priority \notin Priorities THEN "Invalid priority. Must be High, Medium, or Low"
    ELSE ""

ValidationError(req) ==
    IF req.task = "" THEN "Task name is required"
    ELSE IF ~validate_date(req.due) THEN "Invalid date format. Use YYYY-MM-DD"
    ELSE IF req.priority \notin Priorities THEN "Invalid priority. Must be High, Medium, or Low"
    ELSE IF req.status \notin Statuses THEN "Invalid status. Must be Done, In progress, or Not started"
    ELSE ""

Opt(cond, key, prop) == IF cond THEN key :> prop ELSE EmptyDict

CreateProperties(req) ==
    ("Task name" :> TitleProp(req.task))
    @@ ("Status" :> SelectProp(req.status))
    @@ ("Priority" :> SelectProp(req.priority))
    @@ Opt(req.due # "", "Due", DateProp(req.due))
    @@ Opt(req.assignee # "", "Assignee", PeopleRef(req.assignee))
    @@ Opt(req.tags # <<>>, "Tags", MultiSelectProp(req.tags))
    @@ Opt(req.sprint # "", "Sprint", RelationProp(req.sprint))
    @@ Opt(req.project # "", "Project", RelationProp(req.project))
    @@ Opt(req.github_pr # "", "GitHub PR", UrlProp(req.github_pr))

(***************************************************************************)
(* complete_todo: the body of the PATCH request.                           *)
(***************************************************************************)
CompleteProperties == "Status" :> StatusProp("Done")

(***************************************************************************)
(* fetch_todos: the query body.  A criterion is PyNone or PyStr(s); it     *)
(* yields a condition when it is truthy.                                   *)
(***************************************************************************)
Cond(v, c) == IF Truthy(v) THEN <<c>> ELSE <<>>

FilterConditions(c) ==
    Cond(c.status, [property |-> "Status", select |-> [equals |-> c.status.s]])
    \o Cond(c.assignee, [property |-> "Assignee", people |-> [contains |-> c.assignee.s]])
    \o Cond(c.priority, [property |-> "Priority", select |-> [equals |-> c.priority.s]])
    \o Cond(c.project, [property |-> "Project", relation |-> [contains |-> c.project.s]])
    \o Cond(c.sprint, [property |-> "Sprint", relation |-> [contains |-> c.sprint.s]])

\* fetch_todos sending the filter clause even when it has no condition
QueryBody_AlwaysFilter(c) ==
    ("filter" :> [and |-> FilterConditions(c)])
    @@ ("sorts" :> <<[property |-> c.sort_by, direction |-> c.sort_direction]>>)

QueryBody(c) ==
    (IF FilterConditions(c) # <<>>
     THEN "filter" :> [and |-> FilterConditions(c)]
     ELSE EmptyDict)
    @@ ("sorts" :> <<[property |-> c.sort_by, direction |-> c.sort_direction]>>)

DefaultCriteria ==
    [status |-> PyNone, assignee |-> PyNone, priority |-> PyNone, project |-> PyNone,
     sprint |-> PyNone, sort_by |-> "Due", sort_direction |-> "ascending"]

(***************************************************************************)
(* call_tool, show_all_todos / show_today_todos: the body of the loop for  *)
(* one record.  The outcome is "append" (the todo joins the listing),      *)
(* "continue" (show_today_todos filtered it out) or "except" (an exception *)
(* was raised inside the per-record try block and caught by its handler,   *)
(* which logs and continues).                                              *)
(***************************************************************************)
NoDate == [some |-> FALSE, y |-> 0, m |-> 0, d |-> 0]

\* due_date: None unless due_str is non-empty and parses
DueDate(due_str) ==
    IF ~Truthy(due_str) THEN NoDate
    ELSE LET dt == fromisoformat(ReplaceZ(due_str.s))
         IN  IF dt.ok THEN [some |-> TRUE, y |-> dt.y, m |-> dt.m, d |-> dt.d] ELSE NoDate

FormatTodo(todo) ==
    LET props == todo.properties
    IN  [id |-> todo.id,
         task_id |-> safe_get_property(props, "Task ID", PyStr("")),
         task |-> safe_get_property(props, "Task name", PyStr("")),
         status |-> safe_get_property(props, "Status", PyStr("")),
         assignee |-> safe_get_property(props, "Assignee", PyStr("")),
         due |-> safe_get_property(props, "Due", PyStr("")),
         priority |-> safe_get_property(props, "Priority", PyStr("")),
         tags |-> safe_get_property(props, "Tags", PyList(<<>>)),
         sprint |-> safe_get_property(props, "Sprint", PyStr("")),
         project |-> safe_get_property(props, "Project", PyStr("")),
         github_pr |-> safe_get_property(props, "GitHub PR", PyStr("")),
         created |-> todo.created_time]

ProcessTodo(todo, name, today) ==
    IF ~Has(todo, "properties") THEN [kind |-> "except", exc |-> "KeyError"]
    ELSE LET due_str == safe_get_property(todo.properties, "Due", PyStr(""))
             due_date == DueDate(due_str)
         IN  IF Truthy(due_str) /\ due_str.t # "str"
             THEN [kind |-> "except", exc |-> "AttributeError"]
             ELSE IF ~Has(todo, "id") \/ ~Has(todo, "created_time")
             THEN [kind |-> "except", exc |-> "KeyError"]
             ELSE IF name = "show_today_todos" /\ ~due_date.some
             THEN [kind |-> "continue"]
             ELSE IF name = "show_today_todos"
                     /\ [y |-> due_date.y, m |-> due_date.m, d |-> due_date.d] # today
             THEN [kind |-> "continue"]
             ELSE [kind |-> "append", todo |-> FormatTodo(todo)]

\* the loop leaving at the first record that raises, instead of continuing
RECURSIVE FormattedTodos_BreakOnError(_, _, _)
FormattedTodos_BreakOnError(results, name, today) ==
    IF results = <<>> THEN <<>>
    ELSE LET r == ProcessTodo(Head(results), name, today)
             rest == FormattedTodos_BreakOnError(Tail(results), name, today)
         IN  IF r.kind = "append" THEN <<r.todo>> \o rest
             ELSE IF r.kind = "except" THEN <<>>
             ELSE rest

RECURSIVE FormattedTodos(_, _, _)
FormattedTodos(results, name, today) ==
    IF results = <<>> THEN <<>>
    ELSE LET r == ProcessTodo(Head(results), name, today)
             rest == FormattedTodos(Tail(results), name, today)
         IN  IF r.kind = "append" THEN <<r.todo>> \o rest ELSE rest

(***************************************************************************)
(* The store (the Notion database): the pages in store order.  A call to   *)
(* it succeeds ("ok"), is refused with a 4xx or a 5xx status, or times     *)
(* out.  A page that is created or updated keeps the properties that the   *)
(* request carried.                                                        *)
(***************************************************************************)
Outcomes == {"ok", "4xx", "5xx", "timeout"}

\* response.raise_for_status() / the client's timeout: the exception raised
ExcOf(out) == IF out = "timeout" THEN "TimeoutException" ELSE "HTTPStatusError"

PageIds == <<"c1", "c2", "c3", "c4", "c5", "c6">>

NewPage(properties) ==
    [id |-> PageIds[Len(store) + 1], properties |-> properties,
     created_time |-> "2025-02-27T09:00:00.000Z"]

PageIndex(page_id) ==
    {i \in 1..Len(store) : Has(store[i], "id") /\ store[i].id = page_id}

UpdatePage(page, properties) ==
    [k \in DOMAIN page \cup {"properties"} |->
        IF k # "properties" THEN page[k]
        ELSE IF Has(page, "properties") THEN properties @@ page.properties
        ELSE properties]

NoDay == [y |-> 0, m |-> 0, d |-> 0]

\* what an invocation hands back: a returned value or a raised exception
Outcome(op, kind, exc, text, out, todos, today, id) ==
    [op |-> op, kind |-> kind, exc |-> exc, text |-> text, out |-> out,
     todos |-> todos, today |-> today, id |-> id]

Idle == Outcome("", "", "", "", "none", <<>>, NoDay, "")

Request(method, path, body) == [method |-> method, path |-> path, body |-> body]

(***************************************************************************)
(* create_todo(task, assignee, due, priority, tags, sprint, project,       *)
(*             status, github_pr)                                          *)
(***************************************************************************)
CreateTodoParams ==
    {"task", "assignee", "due", "priority", "tags", "sprint", "project", "status", "github_pr"}

CreateTodo(req, out) ==
    /\ arg' = req
    /\ IF ValidationError(req) # ""
       THEN /\ out = "ok"
            /\ requests' = <<>>
            /\ result' = Outcome("create_todo", "raised", "ValueError", ValidationError(req),
                                 "none", <<>>, NoDay, "")
            /\ UNCHANGED store
       ELSE /\ requests' = <<Request("POST", "/pages", [properties |-> CreateProperties(req)])>>
            /\ IF out = "ok"
               THEN /\ Len(store) < MaxStore
                    /\ store' = Append(store, NewPage(CreateProperties(req)))
                    /\ result' = Outcome("create_todo", "returned", "", "", out, <<>>, NoDay,
                                         NewPage(CreateProperties(req)).id)
               ELSE /\ UNCHANGED store
                    /\ result' = Outcome("create_todo", "raised", ExcOf(out), "", out, <<>>,
                                         NoDay, "")

(***************************************************************************)
(* fetch_todos(status, assignee, priority, project, sprint, sort_by,       *)
(*             sort_direction)                                             *)
(***************************************************************************)
FetchTodos(c, out) ==
    /\ arg' = c
    /\ requests' = <<Request("POST", "/databases/query", QueryBody(c))>>
    /\ UNCHANGED store
    /\ IF out = "ok"
       THEN result' = Outcome("fetch_todos", "returned", "", "", out, <<>>, NoDay, "")
       ELSE result' = Outcome("fetch_todos", "raised", ExcOf(out), "", out, <<>>, NoDay, "")

(***************************************************************************)
(* call_tool("add_todo", arguments).  The arguments are a dict with keys   *)
(* among task and when, or not a dict at all.                              *)
(***************************************************************************)
Get(d, k, default) == IF Has(d, k) THEN d[k] ELSE default

CallAddTodo(arguments, out) ==
    /\ arg' = arguments
    /\ IF ~arguments.isdict
       THEN /\ out = "ok"
            /\ requests' = <<>>
            /\ UNCHANGED store
            /\ result' = Outcome("add_todo", "raised", "ValueError", "Invalid arguments",
                                 "none", <<>>, NoDay, "")
       ELSE LET task == Get(arguments.d, "task", "")
                when == Get(arguments.d, "when", "later")
                req == [task |-> task, assignee |-> "", due |-> "", priority |-> "Medium",
                        tags |-> <<>>, sprint |-> "", project |-> "",
                        status |-> "Not started", github_pr |-> ""]
            IN  IF task = ""
                THEN /\ out = "ok"
                     /\ requests' = <<>>
                     /\ UNCHANGED store
                     /\ result' = Outcome("add_todo", "raised", "ValueError",
                                          "Task is required", "none", <<>>, NoDay, "")
                ELSE IF when \notin {"today", "later"}
                THEN /\ out = "ok"
                     /\ requests' = <<>>
                     /\ UNCHANGED store
                     /\ result' = Outcome("add_todo", "raised", "ValueError",
                                          "When must be 'today' or 'later'", "none", <<>>,
                                          NoDay, "")
                ELSE IF ~({"task", "when"} \subseteq CreateTodoParams)
                \* create_todo(task, when=when): no parameter is named when
                THEN /\ out = "ok"
                     /\ requests' = <<>>
                     /\ UNCHANGED store
                     /\ result' = Outcome("add_todo", "raised", "TypeError",
                                          "unexpected keyword argument 'when'", "none", <<>>,
                                          NoDay, "")
                ELSE /\ requests' = <<Request("POST", "/pages",
                                              [properties |-> CreateProperties(req)])>>
                     /\ IF out = "ok"
                        THEN /\ Len(store) < MaxStore
                             /\ store' = Append(store, NewPage(CreateProperties(req)))
                             /\ result' = Outcome("add_todo", "text", "", "Added todo", out,
                                                  <<>>, NoDay, "")
                        ELSE /\ UNCHANGED store
                             /\ result' = Outcome("add_todo", "text", ExcOf(out),
                                                  "Error adding todo", out, <<>>, NoDay, "")

(***************************************************************************)
(* call_tool("show_all_todos" | "show_today_todos", arguments): today is   *)
(* the current date in UTC.                                                *)
(***************************************************************************)
CallShowTodos(name, today, out) ==
    /\ arg' = [isdict |-> TRUE, d |-> EmptyDict]
    /\ requests' = <<Request("POST", "/databases/query", QueryBody(DefaultCriteria))>>
    /\ UNCHANGED store
    /\ IF out = "ok"
       THEN result' = Outcome(name, "text", "", "todos", out,
                              FormattedTodos(store, name, today), today, "")
       ELSE result' = Outcome(name, "text", ExcOf(out), "Error fetching todos", out, <<>>,
                              today, "")

(***************************************************************************)
(* call_tool("complete_todo", arguments) and complete_todo(page_id)        *)
(***************************************************************************)
CallCompleteTodo(arguments, out) ==
    /\ arg' = arguments
    /\ IF ~arguments.isdict
       THEN /\ out = "ok"
            /\ requests' = <<>>
            /\ UNCHANGED store
            /\ result' = Outcome("complete_todo", "raised", "ValueError", "Invalid arguments",
                                 "none", <<>>, NoDay, "")
       ELSE LET task_id == Get(arguments.d, "task_id", "")
            IN  IF task_id = ""
                THEN /\ out = "ok"
                     /\ requests' = <<>>
                     /\ UNCHANGED store
                     /\ result' = Outcome("complete_todo", "raised", "ValueError",
                                          "Task ID is required", "none", <<>>, NoDay, "")
                ELSE /\ requests' = <<Request("PATCH", "/pages/" \o task_id,
                                              [properties |-> CompleteProperties])>>
                     /\ IF out = "ok"
                        THEN /\ PageIndex(task_id) # {}
                             /\ store' = [i \in 1..Len(store) |->
                                            IF i \in PageIndex(task_id)
                                            THEN UpdatePage(store[i], CompleteProperties)
                                            ELSE store[i]]
                             /\ result' = Outcome("complete_todo", "text", "",
                                                  "Marked todo as complete", out, <<>>, NoDay,
                                                  task_id)
                        ELSE /\ UNCHANGED store
                             /\ result' = Outcome("complete_todo", "text", ExcOf(out),
                                                  "Error completing todo", out, <<>>, NoDay,
                                                  task_id)

(***************************************************************************)
(* call_tool(name, arguments) for any other name                           *)
(***************************************************************************)
CallUnknownTool(name) ==
    /\ arg' = [isdict |-> TRUE, d |-> EmptyDict]
    /\ requests' = <<>>
    /\ UNCHANGED store
    /\ result' = Outcome(name, "raised", "ValueError", "Unknown tool", "none", <<>>, NoDay, "")

(***************************************************************************)
(* Pages that other clients of the database have written, as the query     *)
(* returns them: well-formed ones and ones the projection has to cope with.*)
(***************************************************************************)
BaseProps(task, status, priority) ==
    ("Task name" :> TitleProp(task))
    @@ ("Status" :> SelectProp(status))
    @@ ("Priority" :> SelectProp(priority))

Page(id, properties) ==
    [id |-> id, properties |-> properties, created_time |-> "2025-02-20T08:00:00.000Z"]

SamplePages ==
    { Page("r1", BaseProps("Pay rent", "Not started", "High")
                 @@ ("Due" :> DateProp("2025-03-01T10:00:00Z"))
                 @@ ("Tags" :> MultiSelectProp(<<"home", "money">>))
                 @@ ("Assignee" :> [type |-> "people",
                                    people |-> <<[object |-> "user", id |-> "u1", name |-> "Ann"]>>])),
      Page("r2", BaseProps("Call Bob", "In progress", "Medium")
                 @@ ("Due" :> DateProp("2025-03-02T01:00:00+02:00"))),
      Page("r3", BaseProps("Plan trip", "Blocked", "Urgent")
                 @@ ("Due" :> DateProp("next week"))),
      \* a record without properties
      [id |-> "r4", created_time |-> "2025-02-20T08:00:00.000Z"],
      \* a record without created_time
      [id |-> "r5", properties |-> BaseProps("Mow lawn", "Not started", "Low")],
      \* a record whose Due property is a relation: due_str is a list
      Page("r6", BaseProps("Water plants", "Not started", "Low")
                 @@ ("Due" :> RelationProp("x1"))) }

Batches(n) ==
    {b \in [1..n -> SamplePages] : \A i, j \in 1..n : i # j => b[i] # b[j]}

InitStores == UNION {Batches(n) : n \in 0..MaxBatch}

Days ==
    {[y |-> 2025, m |-> 3, d |-> 1], [y |-> 2025, m |-> 3, d |-> 2]}

NoArg == [isdict |-> FALSE]

Dict(d) == [isdict |-> TRUE, d |-> d]

AddTodoArguments ==
    {NoArg, Dict(EmptyDict), Dict("task" :> ""), Dict("task" :> "Write report"),
     Dict(("task" :> "Write report") @@ ("when" :> "today")),
     Dict(("task" :> "Write report") @@ ("when" :> "later")),
     Dict(("task" :> "Write report") @@ ("when" :> "someday"))}

KnownIds == {store[i].id : i \in {j \in 1..Len(store) : Has(store[j], "id")}}

CompleteArguments ==
    {NoArg, Dict(EmptyDict)} \cup {Dict("task_id" :> id) : id \in KnownIds \cup {"gone"}}

NewRequest(task, due, priority, status) ==
    [task |-> task, assignee |-> "", due |-> due, priority |-> priority, tags |-> <<>>,
     sprint |-> "", project |-> "", status |-> status, github_pr |-> ""]

ToolRequests ==
    {NewRequest("Write report", "2025-03-01", "High", "Not started"),
     NewRequest("Buy milk", "", "Medium", "In progress"),
     NewRequest("", "", "Medium", "Not started")}

(***************************************************************************)
(* The server: tool invocations and direct calls, one at a time.           *)
(***************************************************************************)
Init ==
    /\ store \in InitStores
    /\ requests = <<>>
    /\ result = Idle
    /\ arg = NoArg

Next ==
    \/ \E req \in ToolRequests, out \in Outcomes : CreateTodo(req, out)
    \/ \E a \in AddTodoArguments, out \in Outcomes : CallAddTodo(a, out)
    \/ \E name \in {"show_all_todos", "show_today_todos"}, today \in Days, out \in Outcomes :
          CallShowTodos(name, today, out)
    \/ \E a \in CompleteArguments, out \in Outcomes : CallCompleteTodo(a, out)
    \/ \E name \in {"delete_todo"} : CallUnknownTool(name)

Spec == Init /\ [][Next]_vars

(***************************************************************************)
(* create_todo applied to one request, drawn from every combination of     *)
(* valid, invalid, present and absent fields.                              *)
(***************************************************************************)
CreateRequests ==
    [task : {"", "Write report"},
     due : {"", "2025-03-01", "2025-3-1", "2025-02-30", "01/03/2025"},
     priority : {"High", "Urgent"},
     status : {"Not started", "Blocked"},
     assignee : {"", "u1"},
     tags : {<<>>, <<"home", "money">>},
     sprint : {"", "s1"},
     project : {"", "p1"},
     github_pr : {"", "https://github.com/o/r/pull/1"}]

InitCreate ==
    /\ store = <<>>
    /\ requests = <<>>
    /\ result = Idle
    /\ arg \in CreateRequests

NextCreate == \E out \in Outcomes : CreateTodo(arg, out)

SpecCreate == InitCreate /\ [][NextCreate]_vars

(***************************************************************************)
(* fetch_todos applied to one combination of criteria.                     *)
(***************************************************************************)
Criterion(v) == {PyNone, PyStr(""), PyStr(v)}

AllCriteria ==
    [status : Criterion("Done"), assignee : Criterion("u1"), priority : Criterion("High"),
     project : Criterion("p1"), sprint : Criterion("s1"),
     sort_by : {"Due", "Priority"}, sort_direction : {"ascending", "descending"}]

InitQuery ==
    /\ store = <<>>
    /\ requests = <<>>
    /\ result = Idle
    /\ arg \in AllCriteria

NextQuery == \E out \in Outcomes : FetchTodos(arg, out)

SpecQuery == InitQuery /\ [][NextQuery]_vars

(***************************************************************************)
(* Properties.                                                             *)
(***************************************************************************)
ToolNames == {"add_todo", "show_all_todos", "show_today_todos", "complete_todo"}

\* C1: every tool invocation handled by call_tool ends by returning a text
\* result, never by raising; and an add_todo invocation with a non-empty
\* task and when in {today, later} reaches the store's create call.
C1_ToolsReturnText ==
    result.op \in ToolNames =>
        /\ result.kind = "text"
        /\ (/\ result.op = "add_todo"
            /\ arg.isdict
            /\ Get(arg.d, "task", "") # ""
            /\ Get(arg.d, "when", "later") \in {"today", "later"})
           => requests # <<>>

InvalidRequest(req) ==
    \/ req.task = ""
    \/ ~validate_date(req.due)
    \/ req.priority \notin {"High", "Medium", "Low"}
    \/ req.status \notin {"Done", "In progress", "Not started"}

\* C2: create_todo called with an invalid request (empty task, a due string
\* that fails the date validation, a priority or a status outside its
\* enumeration) raises a validation error and issues no request to the store.
C2_ValidationBeforeStore ==
    (result.op = "create_todo" /\ InvalidRequest(arg)) =>
        /\ result.kind = "raised"
        /\ result.exc = "ValueError"
        /\ requests = <<>>
        /\ store = <<>>

C2_Witness ==
    /\ result.op = "create_todo"
    /\ arg.task # ""
    /\ arg.due = "2025-02-30"
    /\ arg.priority = "High"
    /\ result.exc = "ValueError"

\* C3: for every valid request, the payload built by create_todo, read back
\* field by field with safe_get_property, yields the original task name,
\* status and priority and the original value of every optional field that
\* the request carried.
C3_RoundTrip ==
    (result.op = "create_todo" /\ requests # <<>>) =>
        LET props == requests[1].body.properties
            back(key) == safe_get_property(props, key, PyNone)
        IN  /\ back("Task name") = PyStr(arg.task)
            /\ back("Status") = PyStr(arg.status)
            /\ back("Priority") = PyStr(arg.priority)
            /\ arg.due # "" => back("Due") = PyStr(arg.due)
            /\ arg.tags # <<>> => back("Tags") = PyList(arg.tags)
            /\ arg.assignee # "" => back("Assignee") \in {PyStr(arg.assignee), PyList(<<arg.assignee>>)}
            /\ arg.sprint # "" => back("Sprint") \in {PyStr(arg.sprint), PyList(<<arg.sprint>>)}
            /\ arg.project # "" => back("Project") \in {PyStr(arg.project), PyList(<<arg.project>>)}
            /\ arg.github_pr # "" => back("GitHub PR") = PyStr(arg.github_pr)

IsSet(v) == v.t = "str" /\ v.s # ""

SetCount(c) ==
    Cardinality({k \in {"status", "assignee", "priority", "project", "sprint"} : IsSet(c[k])})

\* the conditions of the filter that bear on one property
CondsOn(conds, property) == {i \in 1..Len(conds) : conds[i].property = property}

IsEquality(cond, v) ==
    \E k \in DOMAIN cond \ {"property"} : Has(cond[k], "equals") /\ cond[k].equals = v

IsContainment(cond, kind, v) ==
    /\ Has(cond, kind)
    /\ Has(cond[kind], "contains")
    /\ cond[kind].contains = v

\* one condition on the property if the criterion is set, none otherwise
OneCond(conds, property, v, ok(_)) ==
    IF IsSet(v)
    THEN /\ Cardinality(CondsOn(conds, property)) = 1
         /\ \A i \in CondsOn(conds, property) : ok(conds[i])
    ELSE CondsOn(conds, property) = {}

FilterShape(body, c, assigneeOk(_)) ==
    /\ ~Has(body, "filter") <=> SetCount(c) = 0
    /\ Has(body, "filter") =>
        LET conds == body["filter"].and
            StatusOk(x) == IsEquality(x, c.status.s)
            PriorityOk(x) == IsEquality(x, c.priority.s)
            ProjectOk(x) == IsContainment(x, "relation", c.project.s)
            SprintOk(x) == IsContainment(x, "relation", c.sprint.s)
        IN  /\ DOMAIN body["filter"] = {"and"}
            /\ Len(conds) = SetCount(c)
            /\ OneCond(conds, "Status", c.status, StatusOk)
            /\ OneCond(conds, "Assignee", c.assignee, assigneeOk)
            /\ OneCond(conds, "Priority", c.priority, PriorityOk)
            /\ OneCond(conds, "Project", c.project, ProjectOk)
            /\ OneCond(conds, "Sprint", c.sprint, SprintOk)

\* C4, as stated: the query body has no filter iff no criterion is set, and
\* otherwise an AND list of exactly one condition per set criterion, an
\* equality condition for status, assignee and priority and a
\* relation-containment condition for project and sprint.
C4_FilterAsStated ==
    result.op = "fetch_todos" =>
        LET AssigneeEquals(x) == IsEquality(x, arg.assignee.s)
        IN  FilterShape(requests[1].body, arg, AssigneeEquals)

\* C4, amended: as stated, except that the condition for assignee is a
\* containment condition on the people property, not an equality.
C4_FilterPerCriterion ==
    result.op = "fetch_todos" =>
        LET AssigneeContains(x) == IsContainment(x, "people", arg.assignee.s)
        IN  FilterShape(requests[1].body, arg, AssigneeContains)

C4_Witness ==
    /\ result.op = "fetch_todos"
    /\ IsSet(arg.assignee) /\ IsSet(arg.sprint) /\ IsSet(arg.status)
    /\ ~IsSet(arg.priority) /\ ~IsSet(arg.project)
    /\ Len(requests[1].body["filter"].and) = 3

RECURSIVE DaysBeforeMonth(_, _)
DaysBeforeMonth(y, m) == IF m <= 1 THEN 0 ELSE DaysBeforeMonth(y, m - 1) + DaysInMonth(y, m - 1)

\* the proleptic Gregorian ordinal of a date
Ordinal(y, m, d) ==
    365 * (y - 1) + ((y - 1) \div 4) - ((y - 1) \div 100) + ((y - 1) \div 400)
    + DaysBeforeMonth(y, m) + d

\* the ordinal of the calendar date, in UTC, of a parsed due date
UtcOrdinal(dt) ==
    LET minutes == 60 * dt.hh + dt.mi - dt.off
        shift == IF ~dt.aware THEN 0
                 ELSE IF minutes < 0 THEN -1
                 ELSE IF minutes >= 1440 THEN 1
                 ELSE 0
    IN  Ordinal(dt.y, dt.m, dt.d) + shift

\* C5: every todo in the result of show_today_todos has a due date whose
\* calendar date, taken in UTC, is the current UTC date; a record without a
\* due date, or due a day before or after the current UTC date, is not in it.
C5_TodayInUtc ==
    (result.op = "show_today_todos" /\ result.out = "ok") =>
        \A i \in 1..Len(result.todos) :
            LET due == result.todos[i].due
            IN  /\ due.t = "str"
                /\ due.s # ""
                /\ fromisoformat(ReplaceZ(due.s)).ok
                /\ UtcOrdinal(fromisoformat(ReplaceZ(due.s)))
                     = Ordinal(result.today.y, result.today.m, result.today.d)

\* a record for which the conversion has all it reads: an identifier, a
\* creation time, properties, and a Due property that is not list-valued
WellFormed(rec) ==
    /\ {"id", "properties", "created_time"} \subseteq DOMAIN rec
    /\ safe_get_property(rec.properties, "Due", PyStr("")).t = "str"

Malformed(rec) == ~WellFormed(rec)

\* C6: when the store returns a batch of well-formed records and a
\* malformed one, show_all_todos returns exactly the todos of the
\* well-formed records, in store order, and does not fail.
C6_MalformedSkipped ==
    (result.op = "show_all_todos" /\ result.out = "ok") =>
        LET good == SelectSeq(store, WellFormed)
        IN  /\ result.kind = "text"
            /\ Len(result.todos) = Len(good)
            /\ \A i \in 1..Len(good) :
                  /\ result.todos[i].id = good[i].id
                  /\ result.todos[i].created = good[i].created_time

C6_Witness ==
    /\ result.op = "show_all_todos"
    /\ result.out = "ok"
    /\ Len(store) = 2
    /\ Malformed(store[1])
    /\ WellFormed(store[2])
    /\ Len(result.todos) = 1

CreatedIds == {PageIds[i] : i \in 1..Len(PageIds)}

OtherFields ==
    {"id", "task_id", "task", "assignee", "due", "priority", "tags", "sprint", "project",
     "github_pr", "created"}

\* C7: when complete_todo succeeds on the identifier of a page that
\* create_todo created, the page projects to a todo with status Done and
\* with every other field, priority included, as it was.
C7_CompleteSetsDone ==
    [][(/\ result'.op = "complete_todo"
        /\ result'.out = "ok"
        /\ result'.id \in CreatedIds)
       => \A i \in PageIndex(result'.id) :
             /\ FormatTodo(store'[i]).status = PyStr("Done")
             /\ \A f \in OtherFields : FormatTodo(store'[i])[f] = FormatTodo(store[i])[f]]_vars

\* C8: when completing a todo fails, a 4xx from the store is handed back as
\* a NotFoundError and a 5xx or a timeout as a TransientError, and the
\* request is issued once.
C8_FailuresClassified ==
    (result.op = "complete_todo" /\ result.out \in {"4xx", "5xx", "timeout"}) =>
        /\ result.out = "4xx" => result.exc = "NotFoundError"
        /\ result.out \in {"5xx", "timeout"} => result.exc = "TransientError"
        /\ Len(requests) = 1

\* a record whose Due property holds a start string that is not a date
MalformedDue(rec) ==
    /\ WellFormed(rec)
    /\ LET due == safe_get_property(rec.properties, "Due", PyStr(""))
       IN  /\ due.t = "str"
           /\ due.s # ""
           /\ ~fromisoformat(ReplaceZ(due.s)).ok

\* C9: a record whose Due start string cannot be parsed as a date is still
\* in the listing of show_all_todos, with an empty due field.
C9_MalformedDueAbsent ==
    (result.op = "show_all_todos" /\ result.out = "ok") =>
        /\ result.kind = "text"
        /\ \A i \in 1..Len(store) :
              MalformedDue(store[i]) =>
                  \E j \in 1..Len(result.todos) :
                      /\ result.todos[j].id = store[i].id
                      /\ result.todos[j].due \in {PyStr(""), PyNone}

\* C10: in every todo that show_all_todos or show_today_todos returns,
\* status is empty or one of the status literals and priority is empty or
\* one of High, Medium, Low.
C10_EnumeratedFields ==
    (result.op \in {"show_all_todos", "show_today_todos"} /\ result.out = "ok") =>
        \A i \in 1..Len(result.todos) :
            /\ result.todos[i].status \in {PyStr("")} \cup {PyStr(x) : x \in Statuses}
            /\ result.todos[i].priority \in {PyStr("")} \cup {PyStr(x) : x \in Priorities}
====
